---- MODULE Spec2Model ----
(***************************************************************************)
(* Model of src/src/citizen_app.py: CitizenAppBackend, an issue tracker    *)
(* over one SQLite table.  Every operation opens its own connection, runs  *)
(* its statements and closes the connection; callers are independent       *)
(* processes sharing the database file.                                    *)
(***************************************************************************)
EXTENDS Integers, Sequences, FiniteSets, TLC

(* ------------------------------ bounds -------------------------------- *)
\* the wall clock runs from 0 to MaxClock microseconds
MaxClock == 2
\* report_issue is not started once the rows stored and being reported number MaxIssues
MaxIssues == 3
\* vote_issue on a stored id is not started once the votes stored and being cast
\* number MaxVotes
MaxVotes == 2
\* the same three bounds for the runs in which callers overlap
ConcClock == 0
ConcIssues == 1
ConcVotes == 2

(* ---------------------------- constants ------------------------------- *)
CATEGORIES == {"infrastructure", "safety", "environment", "community", "transit"}

\* category strings callers pass: members, a wrong-case one, a prefix, the empty one
CategoryInputs == {"infrastructure", "safety", "Safety", "safe", ""}
\* the fewer strings passed in the runs in which callers overlap
ConcCategoryInputs == {"safety", ""}
Titles == {"Pothole"}
Locations == {"0,0"}
SortInputs == {"votes", "recent", "oldest"}
ConcSortInputs == {"recent"}

\* the callers: independent processes, each with its own CitizenAppBackend
Procs == {1, 2}
NoProc == 0

MicrosPerSecond == 1000000

\* Optional[str]: <<>> is None, <<s>> is the string s
None == <<>>
Some(s) == <<s>>

(* ------------------------- values and formats ------------------------- *)
\* datetime.now().timestamp() rendered into f"issue_{...}": seconds '.' fraction
IssueId(t) == <<"issue_", t \div MicrosPerSecond, t % MicrosPerSecond>>

\* datetime.now().isoformat(): date-time to the second, then the microseconds
IsoFormat(t) == <<t \div MicrosPerSecond, t % MicrosPerSecond>>

\* TEXT comparison of two created_at values (fixed-width fields, so field by field)
IsoLess(a, b) == a[1] < b[1] \/ (a[1] = b[1] /\ a[2] < b[2])

\* ids callers pass to vote_issue: every id report_issue can return, and one it cannot
IdInputs == {IssueId(t) : t \in 0..MaxClock} \cup {<<"issue_", -1, 0>>}

\* the Issue dataclass: status and votes take their defaults
Issue(id, title, category, location, created) ==
  [id |-> id, title |-> title, category |-> category, location |-> location,
   status |-> "open", votes |-> 0, created_at |-> created]

(* ------------------------------- state -------------------------------- *)
VARIABLES
  clock,    \* the wall clock, in microseconds
  schema,   \* TRUE once the issues table exists
  db,       \* the committed rows of table issues, in rowid order
  lock,     \* the process whose connection holds SQLite's write lock, or NoProc
  pc,       \* each process's position
  call,     \* each process's current call: the operation and its arguments
  frame,    \* each process's locals
  open,     \* each process's number of open connections
  ret,      \* each process's outcome: the value returned or the error raised
  overlap   \* TRUE when callers run while another caller's call is under way

vars == <<clock, schema, db, lock, pc, call, frame, open, ret, overlap>>

NoCall == [op |-> "none", title |-> "", category |-> None, location |-> "",
           issue_id |-> <<>>, sort_by |-> ""]
NoFrame == [issue_id |-> <<>>, created_at |-> <<>>, txn |-> <<>>, result |-> <<>>,
            issues |-> <<>>, total |-> 0, avg_votes |-> 0, by_category |-> <<>>,
            stats |-> <<>>]
NoRet == [kind |-> "none", val |-> <<>>]

Init ==
  /\ clock = 0
  /\ schema = FALSE
  /\ db = <<>>
  /\ lock = NoProc
  /\ pc = [p \in Procs |-> "new"]
  /\ call = [p \in Procs |-> NoCall]
  /\ frame = [p \in Procs |-> NoFrame]
  /\ open = [p \in Procs |-> 0]
  /\ ret = [p \in Procs |-> NoRet]
  /\ overlap \in BOOLEAN

(* ------------------------------ the table ----------------------------- *)
Ids(tbl) == {tbl[i].id : i \in 1..Len(tbl)}
Rows(tbl) == {tbl[i] : i \in 1..Len(tbl)}
RowOf(tbl, id) == CHOOSE r \in Rows(tbl) : r.id = id

RECURSIVE SumVotes(_)
SumVotes(tbl) == IF tbl = <<>> THEN 0 ELSE Head(tbl).votes + SumVotes(Tail(tbl))

\* the wall clock advances
Tick ==
  /\ clock < (IF overlap THEN ConcClock ELSE MaxClock)
  /\ clock' = clock + 1
  /\ UNCHANGED <<schema, db, lock, pc, call, frame, open, ret, overlap>>

\* DROP TABLE and CREATE TABLE: the table is made anew on every start
CreateTableAnew(exists, tbl) == <<>>

\* CREATE TABLE IF NOT EXISTS issues: the rows of an existing table stay
CreateTableIfNotExists(exists, tbl) == IF exists THEN tbl ELSE <<>>

\* __init__ and _init_db
Construct(p) ==
  /\ pc[p] = "new"
  /\ schema' = TRUE
  /\ db' = CreateTableIfNotExists(schema, db)
  /\ pc' = [pc EXCEPT ![p] = "idle"]
  /\ UNCHANGED <<clock, lock, call, frame, open, ret, overlap>>

\* the arguments callers pass
CategoryArgs == IF overlap THEN ConcCategoryInputs ELSE CategoryInputs
SortArgs == IF overlap THEN ConcSortInputs ELSE SortInputs

\* the number of calls of operation op that are under way
InFlight(op) ==
  Cardinality({q \in Procs : call[q].op = op /\ pc[q] \notin {"done", "raised"}})

(* ---------------------------- report_issue ---------------------------- *)
\* a caller enters report_issue(title, category, location)
ReportBegin(p, cap) ==
  /\ pc[p] = "idle"
  /\ Len(db) + InFlight("report") < cap
  /\ \E t \in Titles, c \in CategoryArgs, l \in Locations :
       call' = [call EXCEPT ![p] = [NoCall EXCEPT !.op = "report", !.title = t,
                                                  !.category = Some(c), !.location = l]]
  /\ pc' = [pc EXCEPT ![p] = "r_validate"]
  /\ UNCHANGED <<clock, schema, db, lock, frame, open, ret, overlap>>

\* no check of the category
AnyCategory(c) == TRUE

\* category in self.CATEGORIES
ValidCategory(c) == c \in CATEGORIES

\* if category not in self.CATEGORIES: raise ValueError
ReportValidate(p) ==
  /\ pc[p] = "r_validate"
  /\ IF ValidCategory(call[p].category[1])
       THEN /\ pc' = [pc EXCEPT ![p] = "r_id"]
            /\ ret' = ret
       ELSE /\ pc' = [pc EXCEPT ![p] = "raised"]
            /\ ret' = [ret EXCEPT ![p] = [kind |-> "ValueError", val |-> CATEGORIES]]
  /\ UNCHANGED <<clock, schema, db, lock, call, frame, open, overlap>>

\* issue_id = f"issue_{datetime.now().timestamp()}"
ReportMakeId(p) ==
  /\ pc[p] = "r_id"
  /\ frame' = [frame EXCEPT ![p].issue_id = IssueId(clock)]
  /\ pc' = [pc EXCEPT ![p] = "r_issue"]
  /\ UNCHANGED <<clock, schema, db, lock, call, open, ret, overlap>>

\* issue = Issue(...): created_at is a second reading of the clock
ReportMakeIssue(p) ==
  /\ pc[p] = "r_issue"
  /\ frame' = [frame EXCEPT ![p].created_at = IsoFormat(clock)]
  /\ pc' = [pc EXCEPT ![p] = "r_insert"]
  /\ UNCHANGED <<clock, schema, db, lock, call, open, ret, overlap>>

\* a write that does not wait for the write lock
WriteUnlocked(p) == TRUE

\* a statement that writes waits until no other connection holds the write lock
CanWrite(p) == lock = NoProc

\* conn = sqlite3.connect(...); INSERT INTO issues ...: id is the PRIMARY KEY, a
\* second row with the id is rejected and the statement raises
ReportInsert(p) ==
  /\ pc[p] = "r_insert"
  /\ CanWrite(p)
  /\ lock' = p
  /\ open' = [open EXCEPT ![p] = @ + 1]
  /\ IF frame[p].issue_id \in Ids(db)
       THEN /\ pc' = [pc EXCEPT ![p] = "raised"]
            /\ ret' = [ret EXCEPT ![p] = [kind |-> "IntegrityError",
                                          val |-> frame[p].issue_id]]
            /\ frame' = frame
       ELSE /\ pc' = [pc EXCEPT ![p] = "r_commit"]
            /\ ret' = ret
            /\ frame' = [frame EXCEPT ![p].txn =
                 Append(db, Issue(frame[p].issue_id, call[p].title, call[p].category[1],
                                  call[p].location, frame[p].created_at))]
  /\ UNCHANGED <<clock, schema, db, call, overlap>>

\* conn.commit(); conn.close(); return issue_id
ReportCommit(p) ==
  /\ pc[p] = "r_commit"
  /\ db' = frame[p].txn
  /\ lock' = NoProc
  /\ open' = [open EXCEPT ![p] = @ - 1]
  /\ ret' = [ret EXCEPT ![p] = [kind |-> "value", val |-> frame[p].issue_id]]
  /\ pc' = [pc EXCEPT ![p] = "done"]
  /\ UNCHANGED <<clock, schema, call, frame, overlap>>

(* ----------------------------- vote_issue ----------------------------- *)
\* a caller enters vote_issue(issue_id)
VoteBegin(p, cap) ==
  /\ pc[p] = "idle"
  /\ \E id \in IdInputs :
       /\ id \in Ids(db) => SumVotes(db) + InFlight("vote") < cap
       /\ call' = [call EXCEPT ![p] = [NoCall EXCEPT !.op = "vote", !.issue_id = id]]
  /\ pc' = [pc EXCEPT ![p] = "v_update"]
  /\ UNCHANGED <<clock, schema, db, lock, frame, open, ret, overlap>>

\* an upsert: the UPDATE, and a new row with one vote when no row has the id
UpsertVotes(tbl, id) ==
  IF \E i \in 1..Len(tbl) : tbl[i].id = id
    THEN [i \in 1..Len(tbl) |-> IF tbl[i].id = id THEN [tbl[i] EXCEPT !.votes = @ + 1]
                                                  ELSE tbl[i]]
    ELSE Append(tbl, [Issue(id, "", "", "", <<>>) EXCEPT !.votes = 1])

\* UPDATE issues SET votes = votes + 1 WHERE id = ?
UpdateVotes(tbl, id) ==
  [i \in 1..Len(tbl) |-> IF tbl[i].id = id THEN [tbl[i] EXCEPT !.votes = @ + 1]
                                           ELSE tbl[i]]

\* the SELECT on a connection of its own, which sees the committed rows only
SelectVotesCommitted(tbl, id) ==
  IF id \in Ids(db) THEN <<RowOf(db, id).votes>> ELSE <<>>

\* SELECT votes FROM issues WHERE id = ?; fetchone(): <<>> is None
SelectVotes(tbl, id) == IF id \in Ids(tbl) THEN <<RowOf(tbl, id).votes>> ELSE <<>>

\* conn = sqlite3.connect(...); the UPDATE opens the connection's write transaction
\* and the SELECT runs in it
VoteUpdate(p) ==
  /\ pc[p] = "v_update"
  /\ CanWrite(p)
  /\ lock' = p
  /\ open' = [open EXCEPT ![p] = @ + 1]
  /\ LET txn == UpdateVotes(db, call[p].issue_id)
     IN  frame' = [frame EXCEPT ![p].txn = txn,
                                ![p].result = SelectVotes(txn, call[p].issue_id)]
  /\ pc' = [pc EXCEPT ![p] = "v_commit"]
  /\ UNCHANGED <<clock, schema, db, call, ret, overlap>>

\* result[0] if result else 0
VoteResult(result) == IF result # <<>> THEN result[1] ELSE 0

\* conn.commit(); conn.close(); return
VoteCommit(p) ==
  /\ pc[p] = "v_commit"
  /\ db' = frame[p].txn
  /\ lock' = NoProc
  /\ open' = [open EXCEPT ![p] = @ - 1]
  /\ ret' = [ret EXCEPT ![p] = [kind |-> "value", val |-> VoteResult(frame[p].result)]]
  /\ pc' = [pc EXCEPT ![p] = "done"]
  /\ UNCHANGED <<clock, schema, call, frame, overlap>>

(* ----------------------------- get_issues ----------------------------- *)
\* a caller enters get_issues(category, sort_by)
IssuesBegin(p) ==
  /\ pc[p] = "idle"
  /\ \E c \in {None} \cup {Some(x) : x \in CategoryArgs}, s \in SortArgs :
       call' = [call EXCEPT ![p] = [NoCall EXCEPT !.op = "issues", !.category = c,
                                                  !.sort_by = s]]
  /\ pc' = [pc EXCEPT ![p] = "i_select"]
  /\ UNCHANGED <<clock, schema, db, lock, frame, open, ret, overlap>>

\* if category: the truth value of an Optional[str]
Truthy(category) == category # None /\ category[1] # ""

RECURSIVE FilterCategory(_, _)
FilterCategory(tbl, c) ==
  IF tbl = <<>> THEN <<>>
  ELSE IF Head(tbl).category = c THEN <<Head(tbl)>> \o FilterCategory(Tail(tbl), c)
  ELSE FilterCategory(Tail(tbl), c)

\* query += " WHERE category = ?" when category is truthy
WhereCategory(tbl, category) ==
  IF Truthy(category) THEN FilterCategory(tbl, category[1]) ELSE tbl

\* a comes before b under ORDER BY votes DESC, created_at DESC / created_at DESC
Before(sort_by, a, b) ==
  IF sort_by = "votes"
    THEN a.votes > b.votes \/ (a.votes = b.votes /\ IsoLess(b.created_at, a.created_at))
  ELSE IF sort_by = "recent" THEN IsoLess(b.created_at, a.created_at)
  ELSE FALSE

\* r placed into the ordered rows s, behind the rows it does not come before
RECURSIVE Place(_, _, _)
Place(sort_by, r, s) ==
  IF s = <<>> THEN <<r>>
  ELSE IF Before(sort_by, r, Head(s)) THEN <<r>> \o s
  ELSE <<Head(s)>> \o Place(sort_by, r, Tail(s))

\* the rows in the query's order; rows the ORDER BY ties stay in rowid order,
\* and with no ORDER BY clause all rows do
RECURSIVE OrderBy(_, _)
OrderBy(sort_by, rows) ==
  IF rows = <<>> THEN <<>>
  ELSE Place(sort_by, rows[Len(rows)], OrderBy(sort_by, SubSeq(rows, 1, Len(rows) - 1)))

\* the whole query of get_issues on table tbl
GetIssues(tbl, category, sort_by) == OrderBy(sort_by, WhereCategory(tbl, category))

\* connect; cursor.execute(query, params); results = [dict(row) ...]; conn.close();
\* return results (to the caller, or to export_json)
IssuesSelect(p) ==
  /\ pc[p] = "i_select"
  /\ LET results == GetIssues(db, call[p].category, call[p].sort_by)
     IN  IF call[p].op = "export"
           THEN /\ pc' = [pc EXCEPT ![p] = "s_count"]
                /\ frame' = [frame EXCEPT ![p].issues = results]
                /\ ret' = ret
           ELSE /\ pc' = [pc EXCEPT ![p] = "done"]
                /\ frame' = frame
                /\ ret' = [ret EXCEPT ![p] = [kind |-> "value", val |-> results]]
  /\ UNCHANGED <<clock, schema, db, lock, call, open, overlap>>

(* ------------------------------ get_stats ----------------------------- *)
\* a caller enters get_stats()
StatsBegin(p) ==
  /\ pc[p] = "idle"
  /\ call' = [call EXCEPT ![p] = [NoCall EXCEPT !.op = "stats"]]
  /\ pc' = [pc EXCEPT ![p] = "s_count"]
  /\ UNCHANGED <<clock, schema, db, lock, frame, open, ret, overlap>>

\* SELECT COUNT(*) FROM issues
CountAll(tbl) == Len(tbl)

\* conn = sqlite3.connect(...); the first query
StatsCount(p) ==
  /\ pc[p] = "s_count"
  /\ open' = [open EXCEPT ![p] = @ + 1]
  /\ frame' = [frame EXCEPT ![p].total = CountAll(db)]
  /\ pc' = [pc EXCEPT ![p] = "s_avg"]
  /\ UNCHANGED <<clock, schema, db, lock, call, ret, overlap>>

\* SELECT AVG(votes) FROM issues: the quotient <<sum, count>>, <<>> (NULL) on no rows
AvgVotes(tbl) == IF tbl = <<>> THEN <<>> ELSE <<SumVotes(tbl), Len(tbl)>>

\* cursor.fetchone()[0] or 0: NULL and 0.0 both give 0
OrZero(avg) == IF avg = <<>> \/ avg[1] = 0 THEN <<0, 1>> ELSE avg

StatsAvg(p) ==
  /\ pc[p] = "s_avg"
  /\ frame' = [frame EXCEPT ![p].avg_votes = OrZero(AvgVotes(db))]
  /\ pc' = [pc EXCEPT ![p] = "s_cat"]
  /\ UNCHANGED <<clock, schema, db, lock, call, open, ret, overlap>>

\* the count without its WHERE clause
CountCategoryAll(tbl, c) == Len(tbl)

\* SELECT COUNT(*) FROM issues WHERE category = ?
CountCategory(tbl, c) == Len(FilterCategory(tbl, c))

\* the categories the iteration over the set may yield next: any of those left
\* (one fixed order in the runs in which callers overlap)
IterationNext(left) == IF overlap THEN {CHOOSE c \in left : TRUE} ELSE left

\* for cat in self.CATEGORIES: one query per category, in the set's iteration order
StatsCategory(p) ==
  /\ pc[p] = "s_cat"
  /\ \E c \in IterationNext(CATEGORIES \ DOMAIN frame[p].by_category) :
       /\ frame' = [frame EXCEPT ![p].by_category = (c :> CountCategory(db, c)) @@ @]
       /\ pc' = [pc EXCEPT ![p] = IF DOMAIN frame[p].by_category \cup {c} = CATEGORIES
                                    THEN "s_close" ELSE "s_cat"]
  /\ UNCHANGED <<clock, schema, db, lock, call, open, ret, overlap>>

\* round(avg_votes, 2) of the quotient q, in hundredths: to the nearest, a tie to even
Round2(q) ==
  LET n == 100 * q[1]
      h == n \div q[2]
      r == n % q[2]
  IN  IF 2 * r < q[2] THEN h
      ELSE IF 2 * r > q[2] THEN h + 1
      ELSE IF h % 2 = 0 THEN h ELSE h + 1

\* the dict get_stats returns
StatsDict(total, avg_votes, by_category) ==
  [total_issues |-> total, average_votes |-> Round2(avg_votes), by_category |-> by_category]

\* get_stats on table tbl, with every query reading the same rows
GetStats(tbl) ==
  StatsDict(CountAll(tbl), OrZero(AvgVotes(tbl)),
            [c \in CATEGORIES |-> CountCategory(tbl, c)])

\* conn.close(); return the dict (to the caller, or to export_json)
StatsClose(p) ==
  /\ pc[p] = "s_close"
  /\ open' = [open EXCEPT ![p] = @ - 1]
  /\ LET stats == StatsDict(frame[p].total, frame[p].avg_votes, frame[p].by_category)
     IN  IF call[p].op = "export"
           THEN /\ pc' = [pc EXCEPT ![p] = "e_dump"]
                /\ frame' = [frame EXCEPT ![p].stats = stats]
                /\ ret' = ret
           ELSE /\ pc' = [pc EXCEPT ![p] = "done"]
                /\ frame' = frame
                /\ ret' = [ret EXCEPT ![p] = [kind |-> "value", val |-> stats]]
  /\ UNCHANGED <<clock, schema, db, lock, call, overlap>>

(* ----------------------------- export_json ---------------------------- *)
\* export_json with get_issues' default order
ExportSortDefault == "votes"

\* self.get_issues(sort_by="recent")
ExportSort == "recent"

\* a caller enters export_json(): issues = self.get_issues(sort_by="recent")
ExportBegin(p) ==
  /\ pc[p] = "idle"
  /\ call' = [call EXCEPT ![p] = [NoCall EXCEPT !.op = "export", !.sort_by = ExportSort]]
  /\ pc' = [pc EXCEPT ![p] = "i_select"]
  /\ UNCHANGED <<clock, schema, db, lock, frame, open, ret, overlap>>

\* JSON text: a number, a string, an object as its members <<key, value>> in order
JNum(n) == <<"number", n>>
JStr(s) == <<"string", s>>

\* the keys of a dict, in its order
RECURSIVE KeySeq(_)
KeySeq(S) == IF S = {} THEN <<>> ELSE LET k == CHOOSE x \in S : TRUE
                                      IN  <<k>> \o KeySeq(S \ {k})

DumpRow(r) ==
  << <<"id", JStr(r.id)>>, <<"title", JStr(r.title)>>, <<"category", JStr(r.category)>>,
     <<"location", JStr(r.location)>>, <<"status", JStr(r.status)>>,
     <<"votes", JNum(r.votes)>>, <<"created_at", JStr(r.created_at)>> >>

DumpByCategory(f) ==
  LET ks == KeySeq(DOMAIN f) IN [i \in 1..Len(ks) |-> <<ks[i], JNum(f[ks[i]])>>]

DumpStats(st) ==
  << <<"total_issues", JNum(st.total_issues)>>,
     <<"average_votes", JNum(st.average_votes)>>,
     <<"by_category", DumpByCategory(st.by_category)>> >>

\* json.dumps(export_data, indent=2)
JsonDumps(data) ==
  << <<"statistics", DumpStats(data.statistics)>>,
     <<"issues", [i \in 1..Len(data.issues) |-> DumpRow(data.issues[i])]>> >>

\* the value of member key of a JSON object
Member(obj, key) == obj[CHOOSE i \in 1..Len(obj) : obj[i][1] = key][2]

LoadRow(o) ==
  [id |-> Member(o, "id")[2], title |-> Member(o, "title")[2],
   category |-> Member(o, "category")[2], location |-> Member(o, "location")[2],
   status |-> Member(o, "status")[2], votes |-> Member(o, "votes")[2],
   created_at |-> Member(o, "created_at")[2]]

LoadStats(o) ==
  [total_issues |-> Member(o, "total_issues")[2],
   average_votes |-> Member(o, "average_votes")[2],
   by_category |-> LET b == Member(o, "by_category")
                   IN  [k \in {b[i][1] : i \in 1..Len(b)} |-> Member(b, k)[2]]]

\* json.loads of an export document
JsonLoads(doc) ==
  [statistics |-> LoadStats(Member(doc, "statistics")),
   issues |-> LET a == Member(doc, "issues") IN [i \in 1..Len(a) |-> LoadRow(a[i])]]

\* stats = self.get_stats() has returned; return json.dumps({"statistics": stats,
\* "issues": issues})
ExportDump(p) ==
  /\ pc[p] = "e_dump"
  /\ ret' = [ret EXCEPT ![p] = [kind |-> "value",
               val |-> JsonDumps([statistics |-> frame[p].stats,
                                  issues |-> frame[p].issues])]]
  /\ pc' = [pc EXCEPT ![p] = "done"]
  /\ UNCHANGED <<clock, schema, db, lock, call, frame, open, overlap>>

(* ------------------------------ the caller ---------------------------- *)
\* the caller has the outcome and lets go of it.  A connection the call left open
\* is closed when the exception that holds its frame is discarded, which rolls its
\* transaction back
Ack(p) ==
  /\ pc[p] \in {"done", "raised"}
  /\ pc' = [pc EXCEPT ![p] = "idle"]
  /\ open' = [open EXCEPT ![p] = 0]
  /\ lock' = IF lock = p THEN NoProc ELSE lock
  /\ call' = [call EXCEPT ![p] = NoCall]
  /\ frame' = [frame EXCEPT ![p] = NoFrame]
  /\ ret' = [ret EXCEPT ![p] = NoRet]
  /\ UNCHANGED <<clock, schema, db, overlap>>

\* the processes that make calls: all of them when callers overlap, else one, and
\* the others only construct their CitizenAppBackend
Callers == IF overlap THEN Procs ELSE {1}

MayBegin(p) == p \in Callers

IssueCap == IF overlap THEN ConcIssues ELSE MaxIssues
VoteCap == IF overlap THEN ConcVotes ELSE MaxVotes

\* no other caller is in an operation that only reads.  Two such calls do not
\* affect one another, so they are not run side by side
NoOtherReader(p) == \A q \in Procs \ {p} : call[q].op \notin {"issues", "stats", "export"}

Next ==
  \/ Tick
  \/ \E p \in Procs :
       \/ Construct(p)
       \/ MayBegin(p) /\ ReportBegin(p, IssueCap)
       \/ ReportValidate(p)
       \/ ReportMakeId(p)
       \/ ReportMakeIssue(p)
       \/ ReportInsert(p)
       \/ ReportCommit(p)
       \/ MayBegin(p) /\ VoteBegin(p, VoteCap)
       \/ VoteUpdate(p)
       \/ VoteCommit(p)
       \/ MayBegin(p) /\ NoOtherReader(p) /\ IssuesBegin(p)
       \/ IssuesSelect(p)
       \/ MayBegin(p) /\ NoOtherReader(p) /\ StatsBegin(p)
       \/ StatsCount(p)
       \/ StatsAvg(p)
       \/ StatsCategory(p)
       \/ StatsClose(p)
       \/ MayBegin(p) /\ NoOtherReader(p) /\ ExportBegin(p)
       \/ ExportDump(p)
       \/ Ack(p)

Spec == Init /\ [][Next]_vars

(* ------------------------------- claims ------------------------------- *)
Returned(p, op) == pc[p] = "done" /\ call[p].op = op
Votes(tbl, id) == RowOf(tbl, id).votes

\* C1: every report_issue with a category of the fixed set succeeds with an id no
\* stored record carries: no such call ends in an error.
C1_ValidReportSucceeds ==
  \A p \in Procs :
    (call[p].op = "report" /\ call[p].category[1] \in CATEGORIES) => pc[p] # "raised"

\* C2: report_issue with a category outside the fixed set raises the validation
\* error naming the allowed set, having opened no connection, and the step leaves
\* the stored rows as they were.
C2_InvalidCategoryPersistsNothing ==
  [][\A p \in Procs :
       (pc[p] = "r_validate" /\ call[p].category[1] \notin CATEGORIES /\ pc'[p] # pc[p])
         => /\ pc'[p] = "raised"
            /\ ret'[p] = [kind |-> "ValueError", val |-> CATEGORIES]
            /\ db' = db
            /\ open'[p] = 0
            /\ lock' # p]_vars

C2_Witness ==
  \E p \in Procs :
    /\ pc[p] = "raised" /\ ret[p].kind = "ValueError"
    /\ call[p].category = Some("Safety")
    /\ Len(db) = 1

\* C3: a vote_issue on a stored id raises that row's votes by exactly 1 when it
\* commits and returns the votes stored by that commit.
C3_VoteAddsOneAndReturnsStored ==
  [][\A p \in Procs :
       (pc[p] = "v_commit" /\ pc'[p] = "done" /\ call[p].issue_id \in Ids(db))
         => /\ call[p].issue_id \in Ids(db')
            /\ Votes(db', call[p].issue_id) = Votes(db, call[p].issue_id) + 1
            /\ ret'[p] = [kind |-> "value", val |-> Votes(db', call[p].issue_id)]]_vars

\* the second vote on a fresh issue has returned 2 and 2 votes are stored
C3_Witness ==
  \E p \in Procs :
    /\ ~overlap /\ Returned(p, "vote") /\ call[p].issue_id \in Ids(db)
    /\ ret[p].val = 2 /\ Votes(db, call[p].issue_id) = 2

\* C4: vote_issue on an id no row carries returns 0, raises nothing and leaves
\* the table, its rows and their votes, as it was.
C4_VoteOnMissingIdIsNoOp ==
  [][\A p \in Procs :
       (pc[p] = "v_commit" /\ pc'[p] # pc[p] /\ call[p].issue_id \notin Ids(db))
         => /\ pc'[p] = "done"
            /\ ret'[p] = [kind |-> "value", val |-> 0]
            /\ db' = db]_vars

C4_Witness ==
  \E p \in Procs :
    /\ Returned(p, "vote") /\ call[p].issue_id \notin Ids(db)
    /\ ret[p].val = 0
    /\ Len(db) = 2 /\ SumVotes(db) = 1

\* the other vote_issue calls on the id p votes on
SameVote(p) ==
  {q \in Procs \ {p} : call[q].op = "vote" /\ call[q].issue_id = call[p].issue_id}

\* C5: when a vote_issue commits while other vote_issue calls on the same stored id
\* are under way or have just returned, the stored votes rise by exactly 1 (no
\* increment is lost) and the value returned differs from theirs.
C5_ConcurrentVotesNotLost ==
  [][\A p \in Procs :
       (pc[p] = "v_commit" /\ pc'[p] = "done" /\ call[p].issue_id \in Ids(db)
          /\ SameVote(p) # {})
         => /\ call[p].issue_id \in Ids(db')
            /\ Votes(db', call[p].issue_id) = Votes(db, call[p].issue_id) + 1
            /\ \A q \in SameVote(p) : pc[q] = "done" => ret'[p].val # ret[q].val]_vars

\* two votes on one stored id overlap: one holds the write lock, the other waits
C5_Witness ==
  \E p, q \in Procs :
    /\ p # q /\ pc[p] = "v_commit" /\ pc[q] = "v_update"
    /\ call[p].op = "vote" /\ call[q].op = "vote"
    /\ call[p].issue_id = call[q].issue_id
    /\ call[p].issue_id \in Ids(db)

\* C6: get_issues(category=C) returns exactly the stored rows whose category is C,
\* for every string C.
C6_FilterIsExactMatch ==
  \A p \in Procs :
    (~overlap /\ Returned(p, "issues") /\ call[p].category # None)
      => {ret[p].val[i] : i \in 1..Len(ret[p].val)}
           = {r \in Rows(db) : r.category = call[p].category[1]}

\* C7: get_stats returns total_issues equal to the number of rows and by_category
\* with exactly the five categories as keys, each with the number of rows of that
\* category; on an empty table total_issues and average_votes are 0.
C7_StatsCountsRows ==
  \A p \in Procs :
    (~overlap /\ Returned(p, "stats"))
      => /\ ret[p].val.total_issues = Len(db)
         /\ DOMAIN ret[p].val.by_category = CATEGORIES
         /\ \A c \in CATEGORIES :
              ret[p].val.by_category[c] =
                Cardinality({i \in 1..Len(db) : db[i].category = c})
         /\ db = <<>> => ret[p].val.average_votes = 0

\* infrastructure, safety, infrastructure, the last with 2 votes: average 0.67
C7_Witness ==
  \E p \in Procs :
    /\ ~overlap /\ Returned(p, "stats")
    /\ Len(db) = 3
    /\ db[1].category = "infrastructure" /\ db[2].category = "safety"
    /\ db[3].category = "infrastructure"
    /\ db[1].votes = 0 /\ db[2].votes = 0 /\ db[3].votes = 2
    /\ ret[p].val.total_issues = 3 /\ ret[p].val.average_votes = 67
    /\ ret[p].val.by_category["infrastructure"] = 2
    /\ ret[p].val.by_category["transit"] = 0

\* the export document of p, parsed back
Parsed(p) == JsonLoads(ret[p].val)

\* C8 as stated: the parsed document's statistics count as many issues as its
\* issue list holds, also when other callers write during the export, and its
\* two fields are get_stats and get_issues(sort_by="recent") of the store.
C8_ExportIsOneSnapshot ==
  \A p \in Procs :
    Returned(p, "export")
      => /\ Parsed(p).statistics.total_issues = Len(Parsed(p).issues)
         /\ ~overlap => /\ Parsed(p).statistics = GetStats(db)
                        /\ Parsed(p).issues = GetIssues(db, None, "recent")

\* C8, amended: with no other caller running during the export, the parsed
\* document's statistics are get_stats of the store, its issues are
\* get_issues(sort_by="recent") of the store, and the two agree on the count.
C8_ExportRoundTripAlone ==
  \A p \in Procs :
    (~overlap /\ Returned(p, "export"))
      => /\ Parsed(p).statistics = GetStats(db)
         /\ Parsed(p).issues = GetIssues(db, None, "recent")
         /\ Parsed(p).statistics.total_issues = Len(Parsed(p).issues)

\* an export of two rows of which the older has the votes
C8_Witness ==
  \E p \in Procs :
    /\ ~overlap /\ Returned(p, "export")
    /\ Len(db) = 2 /\ db[1].votes = 1 /\ db[2].votes = 0
    /\ IsoLess(db[1].created_at, db[2].created_at)
    /\ Len(Parsed(p).issues) = 2
    /\ Parsed(p).issues[1].id = db[2].id

\* C9: no connection an operation opened is open once the operation has returned
\* or raised.
C9_ConnectionsReleased ==
  \A p \in Procs : pc[p] \in {"done", "raised"} => open[p] = 0

\* C10: every step keeps every row, in place, with its id, title, category,
\* location, status "open" and created_at, and with votes >= 0 that do not go
\* down; only report_issue's commit adds a row, exactly one, with 0 votes; only
\* vote_issue's commit changes votes, and of the row with its id only.
C10_RecordsAreKept ==
  [][/\ Len(db') >= Len(db)
     /\ \A i \in 1..Len(db) :
          /\ db'[i] = [db[i] EXCEPT !.votes = db'[i].votes]
          /\ db'[i].status = "open"
          /\ db'[i].votes >= db[i].votes
          /\ db[i].votes >= 0
          /\ db'[i].votes # db[i].votes
               => \E p \in Procs : /\ pc[p] = "v_commit" /\ pc'[p] = "done"
                                   /\ call[p].issue_id = db[i].id
     /\ Len(db') > Len(db)
          => /\ Len(db') = Len(db) + 1
             /\ \E p \in Procs : /\ pc[p] = "r_commit" /\ pc'[p] = "done"
                                 /\ db'[Len(db')].id = ret'[p].val
             /\ db'[Len(db')].votes = 0
             /\ db'[Len(db')].status = "open"]_vars

\* a backend is constructed over a table that holds rows and votes
C10_Witness ==
  /\ Len(db) = 3 /\ SumVotes(db) = 2
  /\ pc[2] = "idle"
  /\ Returned(1, "export")

====
